---- MODULE Spec2Model ----
(***************************************************************************)
(* healthwatch-ai, services/health-inference-api: the validated metrics    *)
(* model, the risk scoring service and the predict request handler.        *)
(*                                                                         *)
(* Python floats are IEEE-754 binary64.  They are modelled exactly: a      *)
(* float is a 53-bit mantissa and an exponent, and every literal, product, *)
(* sum, comparison and round() is computed with round-to-nearest-even as   *)
(* CPython computes it.  The mantissas exceed the 32-bit integers of TLC,  *)
(* so they are kept as little-endian sequences of 15-bit limbs.            *)
(* All floats of the program are finite, non-negative and far from the     *)
(* subnormal and overflow ranges, so neither is modelled.                  *)
(***************************************************************************)
EXTENDS Integers, Sequences, FiniteSets

(***************************************************************************)
(* Natural numbers of arbitrary size                                       *)
(***************************************************************************)
Base == 2 ^ 15

RECURSIVE IntBitLen(_)
IntBitLen(n) == IF n = 0 THEN 0 ELSE 1 + IntBitLen(n \div 2)

LimbBits == IntBitLen(Base - 1)

Limb(a, i) == IF i <= Len(a) THEN a[i] ELSE 0

RECURSIVE BNorm(_)
BNorm(s) ==
  IF s = <<>> THEN s
  ELSE IF s[Len(s)] = 0 THEN BNorm(SubSeq(s, 1, Len(s) - 1)) ELSE s

RECURSIVE BFromInt(_)
BFromInt(n) == IF n = 0 THEN <<>> ELSE <<n % Base>> \o BFromInt(n \div Base)

RECURSIVE BToInt(_)
BToInt(a) == IF a = <<>> THEN 0 ELSE a[1] + Base * BToInt(Tail(a))

RECURSIVE BAddC(_, _, _, _)
BAddC(a, b, i, c) ==
  IF i > Len(a) /\ i > Len(b)
  THEN IF c = 0 THEN <<>> ELSE <<c>>
  ELSE LET s == Limb(a, i) + Limb(b, i) + c
       IN  <<s % Base>> \o BAddC(a, b, i + 1, s \div Base)

BAdd(a, b) == BAddC(a, b, 1, 0)

\* a - b for a >= b
RECURSIVE BSubC(_, _, _, _)
BSubC(a, b, i, c) ==
  IF i > Len(a) THEN <<>>
  ELSE LET d == a[i] - Limb(b, i) - c
       IN  IF d < 0 THEN <<d + Base>> \o BSubC(a, b, i + 1, 1)
                    ELSE <<d>> \o BSubC(a, b, i + 1, 0)

BSub(a, b) == BNorm(BSubC(a, b, 1, 0))

\* a * k for 0 <= k < Base
RECURSIVE BMulSmallC(_, _, _, _)
BMulSmallC(a, k, i, c) ==
  IF i > Len(a)
  THEN IF c = 0 THEN <<>> ELSE <<c>>
  ELSE LET p == a[i] * k + c
       IN  <<p % Base>> \o BMulSmallC(a, k, i + 1, p \div Base)

BMulSmall(a, k) == IF k = 0 THEN <<>> ELSE BMulSmallC(a, k, 1, 0)

RECURSIVE BMulFrom(_, _, _)
BMulFrom(a, b, j) ==
  IF j > Len(b) THEN <<>>
  ELSE LET rest == BMulFrom(a, b, j + 1)
       IN  BAdd(BMulSmall(a, b[j]), IF rest = <<>> THEN <<>> ELSE <<0>> \o rest)

BMul(a, b) == BNorm(BMulFrom(a, b, 1))

\* -1, 0, 1 for normalised a, b
RECURSIVE BCmpFrom(_, _, _)
BCmpFrom(a, b, i) ==
  IF i = 0 THEN 0
  ELSE IF a[i] < b[i] THEN -1
  ELSE IF a[i] > b[i] THEN 1
  ELSE BCmpFrom(a, b, i - 1)

BCmp(a, b) ==
  IF Len(a) < Len(b) THEN -1
  ELSE IF Len(a) > Len(b) THEN 1
  ELSE BCmpFrom(a, b, Len(a))

\* quotient and remainder of a by k, 0 < k <= Base
RECURSIVE BDivFrom(_, _, _)
BDivFrom(a, k, i) ==
  IF i > Len(a) THEN [q |-> <<>>, r |-> 0]
  ELSE LET hi  == BDivFrom(a, k, i + 1)
           cur == hi.r * Base + a[i]
       IN  [q |-> <<cur \div k>> \o hi.q, r |-> cur % k]

BDivSmall(a, k) ==
  LET d == BDivFrom(a, k, 1) IN [q |-> BNorm(d.q), r |-> d.r]

Zeros(n) == [i \in 1..n |-> 0]

BPow2(n) == Zeros(n \div LimbBits) \o <<2 ^ (n % LimbBits)>>

BShl(a, n) ==
  IF a = <<>> THEN <<>>
  ELSE Zeros(n \div LimbBits) \o BMulSmall(a, 2 ^ (n % LimbBits))

BShr(a, n) ==
  IF n \div LimbBits >= Len(a) THEN <<>>
  ELSE BDivSmall(SubSeq(a, n \div LimbBits + 1, Len(a)), 2 ^ (n % LimbBits)).q

BBitLen(a) ==
  IF a = <<>> THEN 0 ELSE LimbBits * (Len(a) - 1) + IntBitLen(a[Len(a)])

BOdd(a) == a # <<>> /\ a[1] % 2 = 1

\* n / 2^s rounded to the nearest integer, ties to even; sticky says that
\* n itself is the floor of a value with further non-zero digits
BRoundShr(n, s, sticky) ==
  IF s = 0 THEN n
  ELSE LET q   == BShr(n, s)
           r   == BSub(n, BShl(q, s))
           cmp == BCmp(r, BPow2(s - 1))
           up  == cmp > 0 \/ (cmp = 0 /\ (sticky \/ BOdd(q)))
       IN  IF up THEN BAdd(q, <<1>>) ELSE q

(***************************************************************************)
(* binary64                                                                *)
(***************************************************************************)
\* 52 stored bits and the implicit leading one
MantBits == 52 + 1

FZero == [m |-> <<>>, e |-> 0]

\* the float nearest to n * 2^e (n > 0), ties to even
FNormRound(n, e, sticky) ==
  LET L == BBitLen(n)
  IN  IF L <= MantBits
      THEN [m |-> BShl(n, MantBits - L), e |-> e - (MantBits - L)]
      ELSE LET s == L - MantBits
               q == BRoundShr(n, s, sticky)
           IN  IF BBitLen(q) > MantBits
               THEN [m |-> BShr(q, 1), e |-> e + s + 1]
               ELSE [m |-> q, e |-> e + s]

\* the float a decimal literal num/den denotes (den a power of ten <= 10000)
FLit(num, den) ==
  IF num = 0 THEN FZero
  ELSE LET d == BDivSmall(BShl(BFromInt(num), 80), den)
       IN  FNormRound(d.q, -80, d.r # 0)

FromInt(n) == FLit(n, 1)

FMul(x, y) ==
  IF x.m = <<>> \/ y.m = <<>> THEN FZero
  ELSE FNormRound(BMul(x.m, y.m), x.e + y.e, FALSE)

FAdd(x, y) ==
  IF x.m = <<>> THEN y
  ELSE IF y.m = <<>> THEN x
  ELSE LET e == IF x.e < y.e THEN x.e ELSE y.e
       IN  FNormRound(BAdd(BShl(x.m, x.e - e), BShl(y.m, y.e - e)), e, FALSE)

FLt(x, y) ==
  IF y.m = <<>> THEN FALSE
  ELSE IF x.m = <<>> THEN TRUE
  ELSE x.e < y.e \/ (x.e = y.e /\ BCmp(x.m, y.m) < 0)

FLe(x, y) == ~FLt(y, x)

\* x * scale rounded to the nearest integer, ties to even, for 1 <= x < 2^52:
\* the digits dtoa produces for round(x, n) and for format(x, ".nf")
FDigits(x, scale) ==
  IF x.m = <<>> THEN 0
  ELSE BToInt(BRoundShr(BMul(x.m, BFromInt(scale)), 0 - x.e, FALSE))

\* Python's round(x, ndigits) with scale = 10^ndigits
FRound(x, scale) == FLit(FDigits(x, scale), scale)


(***************************************************************************)
(* Bounds of the model                                                     *)
(***************************************************************************)
\* inputs are taken within Radius below and above every threshold
Radius == 1
\* concurrent callers of the scoring service
NumCallers == 2

Around(t) == (t - Radius) .. (t + Radius - 1)

\* ages offered to the program: around the bounds 0 and 120 and the ladder
\* thresholds, and the two documented examples
Ages == UNION {Around(t) : t \in {0, 30, 50, 65, 121}} \cup {25, 70}
\* BMI values offered, in hundredths (a JSON number with two decimals)
Bmis == UNION {Around(t) : t \in {1000, 1850, 2500, 3000, 6001}}
          \cup {990, 2200, 3200, 6010}
\* systolic blood pressures offered
Bps == UNION {Around(t) : t \in {60, 120, 130, 140, 251}} \cup {110, 145}

Inputs == Ages \X Bmis \X Bps

Callers == 1 .. NumCallers
\* the metrics the concurrent callers score: the two documented examples and
\* one whose weighted sum is exactly 0.25
ConcInputs == {<<25, 2200, 110>>, <<70, 3200, 145>>, <<25, 2200, 135>>}

(***************************************************************************)
(* core/exceptions.py                                                      *)
(***************************************************************************)
HealthWatchExceptions ==
  {"HealthWatchException", "ModelLoadError", "PredictionError", "InvalidInputError"}

(***************************************************************************)
(* domain/models/prediction.py                                             *)
(***************************************************************************)
None == <<>>
Some(x) == <<x>>

F0 == FromInt(0)
F1 == FromInt(1)
F10 == FromInt(10)
F60 == FromInt(60)

\* HealthMetrics(age, bmi, blood_pressure_systolic): the dataclass __init__
\* followed by __post_init__.  The error raised, or the instance.
HealthMetricsError == "ValueError"

\* mutant: the lower BMI bound is taken as exclusive
HealthMetrics_ExclusiveBmi(age, bmi, bp) ==
  IF age < 0 \/ age > 120
  THEN [raised |-> Some(HealthMetricsError), value |-> None]
  ELSE IF FLe(bmi, F10) \/ FLt(F60, bmi)
  THEN [raised |-> Some(HealthMetricsError), value |-> None]
  ELSE IF bp < 60 \/ bp > 250
  THEN [raised |-> Some(HealthMetricsError), value |-> None]
  ELSE [raised |-> None,
        value  |-> Some([age |-> age, bmi |-> bmi, blood_pressure_systolic |-> bp])]

HealthMetrics(age, bmi, bp) ==
  IF age < 0 \/ age > 120
  THEN [raised |-> Some(HealthMetricsError), value |-> None]
  ELSE IF FLt(bmi, F10) \/ FLt(F60, bmi)
  THEN [raised |-> Some(HealthMetricsError), value |-> None]
  ELSE IF bp < 60 \/ bp > 250
  THEN [raised |-> Some(HealthMetricsError), value |-> None]
  ELSE [raised |-> None,
        value  |-> Some([age |-> age, bmi |-> bmi, blood_pressure_systolic |-> bp])]

\* RiskAssessment(...): __init__ followed by __post_init__
RiskAssessment(risk_score, risk_level, confidence, contributing_factors) ==
  IF ~(FLe(F0, risk_score) /\ FLe(risk_score, F1))
  THEN [raised |-> Some("ValueError"), value |-> None]
  ELSE IF ~(FLe(F0, confidence) /\ FLe(confidence, F1))
  THEN [raised |-> Some("ValueError"), value |-> None]
  ELSE [raised |-> None,
        value  |-> Some([risk_score |-> risk_score, risk_level |-> risk_level,
                         confidence |-> confidence,
                         contributing_factors |-> contributing_factors])]

(***************************************************************************)
(* domain/services/risk_scorer.py                                          *)
(***************************************************************************)
R01 == FLit(1, 10)
R03 == FLit(3, 10)
R04 == FLit(4, 10)
R05 == FLit(5, 10)
R06 == FLit(6, 10)
R08 == FLit(8, 10)
R09 == FLit(9, 10)
F18_5 == FLit(185, 10)
F25 == FromInt(25)
F30 == FromInt(30)
F0_25 == FLit(25, 100)
F0_75 == FLit(75, 100)
CONFIDENCE == FLit(85, 100)

\* mutant: the threshold 30 is put in the lower band
_calculate_age_risk_Inclusive(age) ==
  IF age <= 30 THEN R01
  ELSE IF age < 50 THEN R03
  ELSE IF age < 65 THEN R06
  ELSE R09

_calculate_age_risk(age) ==
  IF age < 30 THEN R01
  ELSE IF age < 50 THEN R03
  ELSE IF age < 65 THEN R06
  ELSE R09

\* mutant: the overweight band is given a weight above the 0.5 significance
\* threshold
_calculate_bmi_risk_Overweight(bmi) ==
  IF FLt(bmi, F18_5) THEN R04
  ELSE IF FLt(bmi, F25) THEN R01
  ELSE IF FLt(bmi, F30) THEN R06
  ELSE R08

_calculate_bmi_risk(bmi) ==
  IF FLt(bmi, F18_5) THEN R04
  ELSE IF FLt(bmi, F25) THEN R01
  ELSE IF FLt(bmi, F30) THEN R05
  ELSE R08

_calculate_bp_risk(bp) ==
  IF bp < 120 THEN R01
  ELSE IF bp < 130 THEN R03
  ELSE IF bp < 140 THEN R06
  ELSE R09

\* line 46: (age_risk * 0.3) + (bmi_risk * 0.4) + (bp_risk * 0.3)
AGE_WEIGHT == FLit(3, 10)
BMI_WEIGHT == FLit(4, 10)
BP_WEIGHT == FLit(3, 10)

\* mutant: the component risks are added without their weights
WeightedScore_Unweighted(age_risk, bmi_risk, bp_risk) ==
  FAdd(FAdd(age_risk, bmi_risk), bp_risk)

WeightedScore(age_risk, bmi_risk, bp_risk) ==
  FAdd(FAdd(FMul(age_risk, AGE_WEIGHT), FMul(bmi_risk, BMI_WEIGHT)),
       FMul(bp_risk, BP_WEIGHT))

\* mutant: the score is returned as computed
RoundedScore_Unrounded(risk_score) == risk_score

\* line 62: round(risk_score, 3)
RoundedScore(risk_score) == FRound(risk_score, 1000)

\* mutant: the first threshold is put in the lower band
_categorize_risk_Inclusive(score) ==
  IF FLe(score, F0_25) THEN "low"
  ELSE IF FLt(score, R05) THEN "medium"
  ELSE IF FLt(score, F0_75) THEN "high"
  ELSE "critical"

\* mutant: the labels of the two upper bands are exchanged
_categorize_risk_Swapped(score) ==
  IF FLt(score, F0_25) THEN "low"
  ELSE IF FLt(score, R05) THEN "medium"
  ELSE IF FLt(score, F0_75) THEN "critical"
  ELSE "high"

_categorize_risk(score) ==
  IF FLt(score, F0_25) THEN "low"
  ELSE IF FLt(score, R05) THEN "medium"
  ELSE IF FLt(score, F0_75) THEN "high"
  ELSE "critical"

\* The f-strings are kept as tuples of their text and their formatted values;
\* {metrics.bmi:.1f} is the BMI in tenths.
AgeFactor(metrics) ==
  <<"Age (", metrics.age, " years) is a significant risk factor">>

BmiFactor(metrics) ==
  <<"BMI (", FDigits(metrics.bmi, 10), ") indicates ",
    IF FLt(metrics.bmi, F30) THEN "overweight" ELSE "obese">>

BpFactor(metrics) ==
  <<"Blood pressure (", metrics.blood_pressure_systolic, " mmHg) is elevated">>

HealthyFactor == <<"All metrics within healthy ranges">>

\* mutant: a component risk of exactly 0.5 counts as significant
_identify_factors_Inclusive(metrics, age_risk, bmi_risk, bp_risk) ==
  LET f1 == IF FLe(R05, age_risk) THEN <<AgeFactor(metrics)>> ELSE <<>>
      f2 == IF FLe(R05, bmi_risk) THEN Append(f1, BmiFactor(metrics)) ELSE f1
      f3 == IF FLe(R05, bp_risk) THEN Append(f2, BpFactor(metrics)) ELSE f2
  IN  IF f3 = <<>> THEN <<HealthyFactor>> ELSE f3

_identify_factors(metrics, age_risk, bmi_risk, bp_risk) ==
  LET f1 == IF FLt(R05, age_risk) THEN <<AgeFactor(metrics)>> ELSE <<>>
      f2 == IF FLt(R05, bmi_risk) THEN Append(f1, BmiFactor(metrics)) ELSE f1
      f3 == IF FLt(R05, bp_risk) THEN Append(f2, BpFactor(metrics)) ELSE f2
  IN  IF f3 = <<>> THEN <<HealthyFactor>> ELSE f3


(***************************************************************************)
(* schemas/prediction.py                                                   *)
(***************************************************************************)
\* HealthMetricsRequest: the Field constraints, then validate_bmi.  The
\* validated request, or None when pydantic rejects the body.
HealthMetricsRequest(age, bmi, bp) ==
  IF age < 0 \/ age > 120 THEN None
  ELSE IF FLt(bmi, F10) \/ FLt(F60, bmi) THEN None
  ELSE IF bp < 60 \/ bp > 250 THEN None
  ELSE Some([age |-> age, bmi |-> FRound(bmi, 10), blood_pressure |-> bp])

\* RiskAssessmentResponse built from the domain object
RiskAssessmentResponse(ra) ==
  [status |-> 200, risk_score |-> ra.risk_score, risk_level |-> ra.risk_level,
   confidence |-> ra.confidence, contributing_factors |-> ra.contributing_factors]

ErrorResponse(code) ==
  [status |-> code, risk_score |-> FZero, risk_level |-> "", confidence |-> FZero,
   contributing_factors |-> <<>>]

(***************************************************************************)
(* api/routes/predictions.py                                               *)
(***************************************************************************)
\* the except clauses of predict_health_risk
HandlerExcept(kind) == IF kind \in HealthWatchExceptions THEN 400 ELSE 500

(***************************************************************************)
(* State                                                                   *)
(***************************************************************************)
VARIABLES
  pc,              \* where each caller is
  call,            \* what each caller was given: entry point and raw values
  request,         \* the handler's request object
  health_metrics,  \* the HealthMetrics instance
  frame,           \* the local variables of calculate_risk, per invocation
  risk_assessment, \* what calculate_risk returned
  raised,          \* the exception that reached the caller
  response         \* the HTTP response

vars == <<pc, call, request, health_metrics, frame, risk_assessment, raised, response>>

NoCall == [entry |-> "", age |-> 0, bmi |-> 0, bp |-> 0]

NoLocals ==
  [age_risk |-> FZero, bmi_risk |-> FZero, bp_risk |-> FZero, risk_score |-> FZero,
   risk_level |-> "", factors |-> <<>>]

\* mutant: the intermediate values are kept on one shared object
Frame_Shared(c) == 1

\* calculate_risk keeps its intermediate values in local variables: every
\* invocation has a frame of its own
Frame(c) == c

Init ==
  /\ pc = [c \in Callers |-> "idle"]
  /\ call = [c \in Callers |-> NoCall]
  /\ request = [c \in Callers |-> None]
  /\ health_metrics = [c \in Callers |-> None]
  /\ frame = [c \in Callers |-> NoLocals]
  /\ risk_assessment = [c \in Callers |-> None]
  /\ raised = [c \in Callers |-> None]
  /\ response = [c \in Callers |-> None]

\* the bmi value in hundredths as the float the caller passes
BmiFloat(b) == FLit(b, 100)

(***************************************************************************)
(* Entry points                                                            *)
(***************************************************************************)
\* a caller of the domain layer constructs HealthMetrics(age, bmi, bp) from
\* one of the offered inputs <<age, bmi in hundredths, bp>>
DomainConstruct(c, inputs) ==
  /\ pc[c] = "idle"
  /\ \E m \in inputs :
       LET hm == HealthMetrics(m[1], BmiFloat(m[2]), m[3])
       IN  /\ call' = [call EXCEPT ![c] =
                         [entry |-> "domain", age |-> m[1], bmi |-> m[2], bp |-> m[3]]]
           /\ health_metrics' = [health_metrics EXCEPT ![c] = hm.value]
           /\ raised' = [raised EXCEPT ![c] = hm.raised]
           /\ pc' = [pc EXCEPT ![c] =
                       IF hm.raised = None THEN "constructed" ELSE "raised"]
  /\ UNCHANGED <<request, frame, risk_assessment, response>>

\* POST /predict with body {age, bmi, blood_pressure}: FastAPI validates the
\* body against HealthMetricsRequest before the handler runs and answers 422
\* itself when validation fails
HttpRequest(c, inputs) ==
  /\ pc[c] = "idle"
  /\ \E m \in inputs :
       LET req == HealthMetricsRequest(m[1], BmiFloat(m[2]), m[3])
       IN  /\ call' = [call EXCEPT ![c] =
                         [entry |-> "http", age |-> m[1], bmi |-> m[2], bp |-> m[3]]]
           /\ request' = [request EXCEPT ![c] = req]
           /\ response' = [response EXCEPT ![c] =
                             IF req = None THEN Some(ErrorResponse(422)) ELSE None]
           /\ pc' = [pc EXCEPT ![c] = IF req = None THEN "responded" ELSE "handler"]
  /\ UNCHANGED <<health_metrics, frame, risk_assessment, raised>>

\* predict_health_risk called with a request object that was not validated
\* (HealthMetricsRequest.model_construct, or a test calling the coroutine)
HandlerCall(c, inputs) ==
  /\ pc[c] = "idle"
  /\ \E m \in inputs :
       /\ call' = [call EXCEPT ![c] =
                     [entry |-> "handler", age |-> m[1], bmi |-> m[2], bp |-> m[3]]]
       /\ request' = [request EXCEPT ![c] =
                        Some([age |-> m[1], bmi |-> BmiFloat(m[2]),
                              blood_pressure |-> m[3]])]
  /\ pc' = [pc EXCEPT ![c] = "handler"]
  /\ UNCHANGED <<health_metrics, frame, risk_assessment, raised, response>>

\* predict_health_risk, lines 44-50 and 63-72: HealthMetrics(...) inside the
\* try, and the except clauses when it raises
HandlerConstruct(c) ==
  LET req == request[c][1]
      hm  == HealthMetrics(req.age, req.bmi, req.blood_pressure)
  IN  /\ pc[c] = "handler"
      /\ health_metrics' = [health_metrics EXCEPT ![c] = hm.value]
      /\ IF hm.raised = None
         THEN /\ pc' = [pc EXCEPT ![c] = "constructed"]
              /\ UNCHANGED response
         ELSE /\ pc' = [pc EXCEPT ![c] = "responded"]
              /\ response' = [response EXCEPT ![c] =
                                Some(ErrorResponse(HandlerExcept(hm.raised[1])))]
      /\ UNCHANGED <<call, request, frame, risk_assessment, raised>>

(***************************************************************************)
(* calculate_risk, statement by statement                                  *)
(***************************************************************************)
Metrics(c) == health_metrics[c][1]
Locals(c) == frame[Frame(c)]

SetLocal(c, f, v, next) ==
  /\ frame' = [frame EXCEPT ![Frame(c)] = [@ EXCEPT ![f] = v]]
  /\ pc' = [pc EXCEPT ![c] = next]
  /\ UNCHANGED <<call, request, health_metrics, risk_assessment, raised, response>>

CalcAgeRisk(c) ==
  /\ pc[c] = "constructed"
  /\ SetLocal(c, "age_risk", _calculate_age_risk(Metrics(c).age), "L42")

CalcBmiRisk(c) ==
  /\ pc[c] = "L42"
  /\ SetLocal(c, "bmi_risk", _calculate_bmi_risk(Metrics(c).bmi), "L43")

CalcBpRisk(c) ==
  /\ pc[c] = "L43"
  /\ SetLocal(c, "bp_risk",
              _calculate_bp_risk(Metrics(c).blood_pressure_systolic), "L46")

CalcScore(c) ==
  /\ pc[c] = "L46"
  /\ SetLocal(c, "risk_score",
              WeightedScore(Locals(c).age_risk, Locals(c).bmi_risk, Locals(c).bp_risk),
              "L49")

Categorize(c) ==
  /\ pc[c] = "L49"
  /\ SetLocal(c, "risk_level", _categorize_risk(Locals(c).risk_score), "L52")

IdentifyFactors(c) ==
  /\ pc[c] = "L52"
  /\ SetLocal(c, "factors",
              _identify_factors(Metrics(c), Locals(c).age_risk, Locals(c).bmi_risk,
                                Locals(c).bp_risk),
              "L61")

\* lines 61-66: the RiskAssessment is built from round(risk_score, 3) and
\* returned; a ValueError of its __post_init__ leaves calculate_risk and, in
\* the handler, reaches the except clauses
Return(c) ==
  LET ra == RiskAssessment(RoundedScore(Locals(c).risk_score), Locals(c).risk_level,
                           CONFIDENCE, Locals(c).factors)
  IN  /\ pc[c] = "L61"
      /\ risk_assessment' = [risk_assessment EXCEPT ![c] = ra.value]
      /\ IF ra.raised = None
         THEN /\ pc' = [pc EXCEPT ![c] = "returned"]
              /\ UNCHANGED <<raised, response>>
         ELSE IF call[c].entry = "domain"
         THEN /\ pc' = [pc EXCEPT ![c] = "raised"]
              /\ raised' = [raised EXCEPT ![c] = ra.raised]
              /\ UNCHANGED response
         ELSE /\ pc' = [pc EXCEPT ![c] = "responded"]
              /\ response' = [response EXCEPT ![c] =
                                Some(ErrorResponse(HandlerExcept(ra.raised[1])))]
              /\ UNCHANGED raised
      /\ UNCHANGED <<call, request, health_metrics, frame>>

\* predict_health_risk, lines 56-61: the response DTO
Respond(c) ==
  /\ pc[c] = "returned"
  /\ call[c].entry # "domain"
  /\ response' = [response EXCEPT ![c] =
                    Some(RiskAssessmentResponse(risk_assessment[c][1]))]
  /\ pc' = [pc EXCEPT ![c] = "responded"]
  /\ UNCHANGED <<call, request, health_metrics, frame, risk_assessment, raised>>

\* the caller is done with the outcome; the objects of the call and the
\* frame of calculate_risk are dropped
Finished(c) ==
  \/ pc[c] \in {"raised", "responded"}
  \/ pc[c] = "returned" /\ call[c].entry = "domain"

Finish(c) ==
  /\ Finished(c)
  /\ pc' = [pc EXCEPT ![c] = "idle"]
  /\ call' = [call EXCEPT ![c] = NoCall]
  /\ request' = [request EXCEPT ![c] = None]
  /\ health_metrics' = [health_metrics EXCEPT ![c] = None]
  /\ risk_assessment' = [risk_assessment EXCEPT ![c] = None]
  /\ raised' = [raised EXCEPT ![c] = None]
  /\ response' = [response EXCEPT ![c] = None]
  /\ frame' = [frame EXCEPT ![Frame(c)] = NoLocals]

CalculateRisk(c) ==
  \/ CalcAgeRisk(c)
  \/ CalcBmiRisk(c)
  \/ CalcBpRisk(c)
  \/ CalcScore(c)
  \/ Categorize(c)
  \/ IdentifyFactors(c)
  \/ Return(c)

\* one caller, every entry point, the inputs around every threshold
Next ==
  \E c \in {1} :
    \/ DomainConstruct(c, Inputs)
    \/ HttpRequest(c, Inputs)
    \/ HandlerCall(c, Inputs)
    \/ HandlerConstruct(c)
    \/ CalculateRisk(c)
    \/ Respond(c)
    \/ Finish(c)

Spec == Init /\ [][Next]_vars

\* several callers of the domain layer, their statements interleaved
NextConc ==
  \E c \in Callers :
    \/ DomainConstruct(c, ConcInputs)
    \/ CalculateRisk(c)
    \/ Finish(c)

SpecConc == Init /\ [][NextConc]_vars

(***************************************************************************)
(* Properties                                                              *)
(***************************************************************************)
\* the raw values of a call satisfy the three documented bounds
\* (BMI in hundredths)
InBounds(k) ==
  /\ 0 <= k.age /\ k.age <= 120
  /\ 1000 <= k.bmi /\ k.bmi <= 6000
  /\ 60 <= k.bp /\ k.bp <= 250

\* the caller handed its raw values to HealthMetrics(...) unchanged and the
\* constructor has run
CtorRan(c) ==
  \/ call[c].entry = "domain"
  \/ call[c].entry = "handler" /\ pc[c] # "handler"

\* calculate_risk has been called on the caller's metrics and is over
CalcOver(c) ==
  /\ health_metrics[c] # None
  /\ pc[c] \in {"returned", "raised", "responded"}

\* C1: for every Metrics value within the three bounds calculate_risk returns
\* a RiskAssessment without raising, whose riskScore lies in [0, 1] and whose
\* confidence is 0.85.
C1_ScoreInRange ==
  \A c \in Callers :
    (CalcOver(c) /\ CtorRan(c) /\ InBounds(call[c])) =>
      /\ risk_assessment[c] # None
      /\ raised[c] = None
      /\ pc[c] = "responded" => response[c][1].status = 200
      /\ FLe(F0, risk_assessment[c][1].risk_score)
      /\ FLe(risk_assessment[c][1].risk_score, F1)
      /\ risk_assessment[c][1].confidence = FLit(85, 100)

\* the highest score there is, 0.86, has been returned
C1_Witness ==
  \E c \in Callers :
    /\ pc[c] = "returned"
    /\ InBounds(call[c])
    /\ risk_assessment[c] # None
    /\ risk_assessment[c][1].risk_score = FLit(86, 100)
    /\ risk_assessment[c][1].confidence = FLit(85, 100)

\* C2: constructing a Metrics value succeeds if and only if all three bounds
\* hold; when a field is out of bounds construction fails and the caller
\* holds no Metrics instance.
C2_ConstructIffInBounds ==
  \A c \in Callers :
    CtorRan(c) =>
      /\ health_metrics[c] # None <=> InBounds(call[c])
      /\ health_metrics[c] # None =>
           health_metrics[c][1] =
             [age |-> call[c].age, bmi |-> FLit(call[c].bmi, 100),
              blood_pressure_systolic |-> call[c].bp]
      /\ (call[c].entry = "domain" /\ ~InBounds(call[c])) =>
           (raised[c] # None /\ pc[c] = "raised")

\* the six documented rejections, each with the two other fields valid, seen
\* one at a time: here bmi = 60.1
C2_Witness ==
  \E c \in Callers :
    /\ call[c] = [entry |-> "domain", age |-> 25, bmi |-> 6010, bp |-> 110]
    /\ health_metrics[c] = None
    /\ raised[c] # None

\* C3: every failure of Metrics construction is reported as InvalidInputError,
\* the only error kind the core (Metrics construction and score) raises.
C3_InvalidInputErrorOnly ==
  \A c \in Callers :
    (call[c].entry = "domain" /\ raised[c] # None) =>
      raised[c] = Some("InvalidInputError")

\* C4: in the predict handler a failure of Metrics construction ends in a
\* 400-class response, never in a 500 response.
C4_ConstructionFailureIs400 ==
  \A c \in Callers :
    (/\ call[c].entry \in {"http", "handler"}
     /\ request[c] # None
     /\ pc[c] = "responded"
     /\ health_metrics[c] = None) =>
      (response[c][1].status >= 400 /\ response[c][1].status < 500)

\* the component risk each ladder of the documentation gives, in tenths
AgeBand(age) ==
  IF age < 30 THEN 1 ELSE IF age < 50 THEN 3 ELSE IF age < 65 THEN 6 ELSE 9

\* bmi in hundredths
BmiBand(bmi) ==
  IF bmi < 1850 THEN 4 ELSE IF bmi < 2500 THEN 1 ELSE IF bmi < 3000 THEN 5 ELSE 8

BpBand(bp) ==
  IF bp < 120 THEN 1 ELSE IF bp < 130 THEN 3 ELSE IF bp < 140 THEN 6 ELSE 9

\* the three component risks of the call have been computed
RisksSet(c) ==
  pc[c] \in {"L46", "L49", "L52", "L61"} \/ (CalcOver(c) /\ risk_assessment[c] # None)

\* C5: the three component risk functions are the documented threshold
\* ladders, each threshold belonging to the higher band, so that every valid
\* input falls in exactly one band.
C5_Ladders ==
  \A c \in Callers :
    (RisksSet(c) /\ CtorRan(c)) =>
      /\ frame[c].age_risk = FLit(AgeBand(call[c].age), 10)
      /\ frame[c].bmi_risk = FLit(BmiBand(call[c].bmi), 10)
      /\ frame[c].bp_risk = FLit(BpBand(call[c].bp), 10)

\* age 30, BMI 18.5 and blood pressure 120 each in the higher band
C5_Witness ==
  \E c \in Callers :
    /\ RisksSet(c)
    /\ call[c].age = 30 /\ call[c].bmi = 1850 /\ call[c].bp = 120
    /\ frame[c].age_risk = FLit(3, 10)
    /\ frame[c].bmi_risk = FLit(1, 10)
    /\ frame[c].bp_risk = FLit(3, 10)

\* the weighted sum of the documentation in thousandths, from the ladders
ScoreThousandths(k) == 30 * AgeBand(k.age) + 40 * BmiBand(k.bmi) + 30 * BpBand(k.bp)

Returned(c) == CalcOver(c) /\ risk_assessment[c] # None

\* C6: the returned riskScore is 0.3*ageRisk + 0.4*bmiRisk + 0.3*bpRisk
\* rounded to 3 decimal places, the weights summing to 1.0; (25, 22, 110)
\* yields 0.1, LOW and the sentinel alone, (70, 32, 145) yields 0.86, CRITICAL
\* and the three factors.
C6_WeightedScore ==
  /\ FAdd(FAdd(AGE_WEIGHT, BMI_WEIGHT), BP_WEIGHT) = F1
  /\ <<AGE_WEIGHT, BMI_WEIGHT, BP_WEIGHT>> = <<FLit(3, 10), FLit(4, 10), FLit(3, 10)>>
  /\ \A c \in Callers :
       (Returned(c) /\ CtorRan(c)) =>
         LET ra == risk_assessment[c][1]
         IN  /\ ra.risk_score = FLit(ScoreThousandths(call[c]), 1000)
             /\ (call[c].age = 25 /\ call[c].bmi = 2200 /\ call[c].bp = 110) =>
                  /\ ra.risk_score = FLit(1, 10)
                  /\ ra.risk_level = "low"
                  /\ ra.contributing_factors = <<<<"All metrics within healthy ranges">>>>
             /\ (call[c].age = 70 /\ call[c].bmi = 3200 /\ call[c].bp = 145) =>
                  /\ ra.risk_score = FLit(86, 100)
                  /\ ra.risk_level = "critical"
                  /\ ra.contributing_factors =
                       << <<"Age (", 70, " years) is a significant risk factor">>,
                          <<"BMI (", 320, ") indicates ", "obese">>,
                          <<"Blood pressure (", 145, " mmHg) is elevated">> >>

\* the second example has been scored, its unrounded sum being
\* 0.8600000000000001
C6_Witness ==
  \E c \in Callers :
    /\ Returned(c)
    /\ call[c].age = 70 /\ call[c].bmi = 3200 /\ call[c].bp = 145
    /\ frame[c].risk_score # FLit(86, 100)
    /\ risk_assessment[c][1].risk_score = FLit(86, 100)

\* the level of a score given in thousandths
LevelOfThousandths(d) ==
  IF d < 250 THEN "low" ELSE IF d < 500 THEN "medium"
  ELSE IF d < 750 THEN "high" ELSE "critical"

\* the risk level has been assigned from the local risk_score
LevelSet(c) == pc[c] \in {"L52", "L61"} \/ Returned(c)

\* C7 as stated: rounding is applied before categorization, that is, the
\* score handed to _categorize_risk is the 3-decimal score that is returned,
\* and riskLevel is the category of the returned riskScore.
C7_RoundingBeforeCategorization ==
  \A c \in Callers :
    /\ LevelSet(c) => frame[c].risk_score = RoundedScore(frame[c].risk_score)
    /\ Returned(c) =>
         risk_assessment[c][1].risk_level =
           LevelOfThousandths(FDigits(risk_assessment[c][1].risk_score, 1000))

\* C7 as amended: the level is assigned from the unrounded sum and the score
\* is rounded afterwards; all the same, in every RiskAssessment returned the
\* riskLevel is the category of the returned 3-decimal riskScore, and a sum
\* that rounds to exactly 0.25 or 0.50 is in the higher band.
C7_LevelMatchesReturnedScore ==
  \A c \in Callers :
    Returned(c) =>
      LET ra == risk_assessment[c][1]
          d  == FDigits(ra.risk_score, 1000)
      IN  /\ ra.risk_score = FLit(d, 1000)
          /\ ra.risk_score = RoundedScore(frame[c].risk_score)
          /\ ra.risk_level = frame[c].risk_level
          /\ ra.risk_level = LevelOfThousandths(d)
          /\ d = 250 => ra.risk_level = "medium"
          /\ d = 500 => ra.risk_level = "high"

\* a score of exactly 0.25 has been returned with level MEDIUM
C7_Witness ==
  \E c \in Callers :
    /\ Returned(c)
    /\ risk_assessment[c][1].risk_score = FLit(25, 100)
    /\ risk_assessment[c][1].risk_level = "medium"

\* the positions in fs of the factors that start with the text t
Positions(fs, t) == {i \in 1..Len(fs) : fs[i][1] = t}

\* C8: contributingFactors is non-empty and holds exactly one descriptive
\* string for each component whose risk exceeds 0.5, in the order age, BMI,
\* blood pressure; the sentinel is emitted if and only if no component
\* exceeds 0.5, and is then the only element.
C8_Factors ==
  \A c \in Callers :
    Returned(c) =>
      LET fs   == risk_assessment[c][1].contributing_factors
          m    == health_metrics[c][1]
          age  == FLt(FLit(5, 10), frame[c].age_risk)
          bmi  == FLt(FLit(5, 10), frame[c].bmi_risk)
          bp   == FLt(FLit(5, 10), frame[c].bp_risk)
          pAge == Positions(fs, "Age (")
          pBmi == Positions(fs, "BMI (")
          pBp  == Positions(fs, "Blood pressure (")
          pOk  == Positions(fs, "All metrics within healthy ranges")
          n(b) == IF b THEN 1 ELSE 0
      IN  /\ Len(fs) >= 1
          /\ Cardinality(pAge) = n(age)
          /\ Cardinality(pBmi) = n(bmi)
          /\ Cardinality(pBp) = n(bp)
          /\ Cardinality(pOk) = n(~age /\ ~bmi /\ ~bp)
          /\ Len(fs) = n(age) + n(bmi) + n(bp) + n(~age /\ ~bmi /\ ~bp)
          /\ \A i \in pAge, j \in pBmi \cup pBp : i < j
          /\ \A i \in pBmi, j \in pBp : i < j
          /\ \A i \in pAge : fs[i][2] = m.age
          /\ \A i \in pBp : fs[i][2] = m.blood_pressure_systolic
          /\ pOk # {} => fs = <<<<"All metrics within healthy ranges">>>>

\* a BMI risk of exactly 0.5 beside an age and a pressure that qualify: the
\* two factors are returned, age first, and no BMI factor
C8_Witness ==
  \E c \in Callers :
    /\ Returned(c)
    /\ frame[c].bmi_risk = FLit(5, 10)
    /\ Len(risk_assessment[c][1].contributing_factors) = 2
    /\ risk_assessment[c][1].contributing_factors[1][1] = "Age ("
    /\ risk_assessment[c][1].contributing_factors[2][1] = "Blood pressure ("

\* the values of the ladders
AgeRisks == {FLit(n, 10) : n \in {1, 3, 6, 9}}
BmiRisks == {FLit(n, 10) : n \in {4, 1, 5, 8}}
BpRisks == {FLit(n, 10) : n \in {1, 3, 6, 9}}

Rank(level) ==
  CASE level = "low" -> 1
    [] level = "medium" -> 2
    [] level = "high" -> 3
    [] level = "critical" -> 4

\* the level calculate_risk assigns to a triple of component risks
LevelOfRisks(age_risk, bmi_risk, bp_risk) ==
  _categorize_risk(WeightedScore(age_risk, bmi_risk, bp_risk))

\* C9: the risk level is monotonic in each component risk: of two triples of
\* ladder values that differ in one component only, the one with the larger
\* component never has the lower level.  The triple of the call is compared
\* with every triple that is larger in one component.
C9_Monotonic ==
  \A c \in Callers :
    pc[c] = "L52" =>
      LET l == frame[c]
      IN  /\ \A r \in AgeRisks :
               FLt(l.age_risk, r) =>
                 Rank(LevelOfRisks(r, l.bmi_risk, l.bp_risk)) >= Rank(l.risk_level)
          /\ \A r \in BmiRisks :
               FLt(l.bmi_risk, r) =>
                 Rank(LevelOfRisks(l.age_risk, r, l.bp_risk)) >= Rank(l.risk_level)
          /\ \A r \in BpRisks :
               FLt(l.bp_risk, r) =>
                 Rank(LevelOfRisks(l.age_risk, l.bmi_risk, r)) >= Rank(l.risk_level)

\* a call with the highest age and pressure risks and a BMI risk of 0.5 is at
\* level HIGH (0.74), and the larger BMI risk 0.8 lifts it to CRITICAL
C9_Witness ==
  \E c \in Callers :
    /\ pc[c] = "L52"
    /\ frame[c].age_risk = FLit(9, 10)
    /\ frame[c].bmi_risk = FLit(5, 10)
    /\ frame[c].bp_risk = FLit(9, 10)
    /\ frame[c].risk_level = "high"
    /\ LevelOfRisks(frame[c].age_risk, FLit(8, 10), frame[c].bp_risk) = "critical"

\* C10: calculate_risk is deterministic and free of shared mutable state: two
\* calls with equal Metrics return equal RiskAssessments whatever calls came
\* before and however the statements of concurrent calls are interleaved, and
\* a call leaves its Metrics as they were constructed.
C10_Deterministic ==
  /\ \A c1, c2 \in Callers :
       (/\ pc[c1] = "returned"
        /\ pc[c2] = "returned"
        /\ health_metrics[c1] = health_metrics[c2]) =>
         risk_assessment[c1] = risk_assessment[c2]
  /\ \A c \in Callers :
       (call[c].entry = "domain" /\ pc[c] # "raised") =>
         health_metrics[c] =
           Some([age |-> call[c].age, bmi |-> FLit(call[c].bmi, 100),
                 blood_pressure_systolic |-> call[c].bp])

\* two callers, whatever each ran before, hold the results of two calls with
\* equal metrics
C10_Witness ==
  \E c1, c2 \in Callers :
    /\ c1 # c2
    /\ pc[c1] = "returned"
    /\ pc[c2] = "returned"
    /\ health_metrics[c1] = health_metrics[c2]
    /\ risk_assessment[c1] = risk_assessment[c2]
    /\ risk_assessment[c1] # None

\* every list of factors the call has produced so far: the local of
\* calculate_risk, the RiskAssessment and the response body
FactorLists(c) ==
  (IF pc[c] = "L61" \/ Returned(c) THEN {frame[c].factors} ELSE {})
    \cup (IF risk_assessment[c] # None
          THEN {risk_assessment[c][1].contributing_factors} ELSE {})
    \cup (IF response[c] # None /\ response[c][1].status = 200
          THEN {response[c][1].contributing_factors} ELSE {})

====
